---- MODULE Spec2Model ----
(***************************************************************************)
(* Truth-Stamp web client: the authenticated API access layer.             *)
(*                                                                         *)
(*   lib/api  (apiFetch, API)        the dispatcher                        *)
(*   lib/auth (getToken, setToken, clearToken, authHeaders)                *)
(*                                   the token store                       *)
(*   RegisterPage.onSubmit           the explicit set() of the credential  *)
(*   CasePage.loadAll                three concurrent dispatcher requests  *)
(*                                                                         *)
(* JavaScript runs one task at a time: an async function runs without      *)
(* interruption up to its next await, so every action below is the code    *)
(* between two awaits.                                                     *)
(*                                                                         *)
(*   CasePage.postMultipart          the /analyze and /report uploads      *)
(*   Page (quick scan)               its own fetches, outside lib/api      *)
(*                                                                         *)
(* The specifications share the actions    and differ in the inputs:         *)
(*   Spec         calls without options (pages, loadAll); 200, 401, 500    *)
(*                and transport failures                                   *)
(*   SpecHeaders  calls with caller options; 401                           *)
(*   SpecStatus   calls without options; 200, 401, 403, 500                *)
(*   SpecCase     the case page: mount, loadAll to its end, uploads        *)
(*   SpecLoad     the case page: mount and loadAll, with any status and    *)
(*                transport failures                                       *)
(*   SpecScan     the quick-scan page: list of cases, uploads, signup      *)
(*   SpecUploads  the uploads of the quick-scan page and of the case page  *)
(*   SpecTab      one tab showing one of the three pages                   *)
(*   SpecStorage  the dispatcher and the register page, without storage    *)
(***************************************************************************)
EXTENDS Integers, Sequences, FiniteSets, TLC

\* ---------------------------------------------------------------- bounds
\* calls of apiFetch at which the case page may still start a loadAll
MaxCalls == 3
\* calls of apiFetch at which a page may still make a single call
MaxPageCalls == 2
\* runs of loadAll at which the case page may still start an upload
MaxLoads == 2
\* requests of the quick-scan page at which it may still send one
MaxScanCalls == 3

\* ------------------------------------------------------------ value sets
\* getToken() when nothing is stored
Absent == "absent"
\* the value of a missing property / of an await that has not settled
Undefined == "undefined"
\* credentials the backend hands out
Tokens == {"abc123", "tok2"}
\* status codes the backend answers with
Statuses == {200, 401, 500}
\* ... and a 4xx that is not 401
AllStatuses == Statuses \cup {403}
\* the id of the case shown by the case page
caseId == "c1"

\* values of NEXT_PUBLIC_API_URL: unset, or the address of a deployment
ApiUrls == {Undefined, "https://api.truthstamp.test"}

\* ------------------------------------------------------------ variables
VARIABLES
    token,      \* the token store's slot: a credential or Absent
    reqs,       \* the calls of apiFetch, in call order
    outbox,     \* the HTTP requests handed to fetch() by apiFetch, in order
    clearCalls, \* number of clearToken() calls made by apiFetch
    seen401,    \* number of 401 responses apiFetch has received
    evicted,    \* a 401 was received and setToken() was not called since
    raced,      \* a 401 made apiFetch remove a credential other than the one
                \* its request was issued under
    reg,        \* RegisterPage: position in onSubmit and its React state
    page,       \* CasePage: its React state and its position in postMultipart
    loads,      \* CasePage: the runs of loadAll, in call order
    env,        \* the process: NEXT_PUBLIC_API_URL; whether storage is there
    scan        \* Page (quick scan): its React state and its handlers

vars == <<token, reqs, outbox, clearCalls, seen401, evicted, raced, reg,
          page, loads, env, scan>>

\* ------------------------------------------------------ the base address
\* process.env.NEXT_PUBLIC_API_URL || "http://localhost:10000"
API == IF env.NEXT_PUBLIC_API_URL # Undefined THEN env.NEXT_PUBLIC_API_URL
       ELSE "http://localhost:10000"

\* the same expression, in the register page
RegisterAPI == IF env.NEXT_PUBLIC_API_URL # Undefined THEN env.NEXT_PUBLIC_API_URL
               ELSE "http://localhost:10000"

\* process.env.NEXT_PUBLIC_API_URL || "http://localhost:8000"
DEFAULT_API == IF env.NEXT_PUBLIC_API_URL # Undefined THEN env.NEXT_PUBLIC_API_URL
               ELSE "http://localhost:8000"

\* ------------------------------------------------------- the token store
\* with the storage unavailable, getToken() is absent and setToken() and
\* clearToken() do nothing
getToken == IF env.storage THEN token ELSE Absent

\* variant: a credential already stored is kept
setToken_KeepExisting(t) == token' = IF token = Absent THEN t ELSE token

setToken(t) == token' = IF env.storage THEN t ELSE token

\* variant: nothing is removed
clearToken_Noop == token' = token

clearToken == token' = IF env.storage THEN Absent ELSE token

\* "Bearer <token>"
Bearer(t) == "Bearer " \o t

\* a JavaScript object is its own properties in insertion order
Prop(k, v) == [k |-> k, v |-> v]

AuthHeadersFor(t) == IF t # Absent THEN <<Prop("Authorization", Bearer(t))>> ELSE <<>>

authHeaders == AuthHeadersFor(getToken)

\* ------------------------------------------------- objects and headers
HasKey(o, k) == \E i \in DOMAIN o : o[i].k = k

\* { ...a, ...b }: the properties of a, then those of b; a key of b already
\* present keeps its place and takes b's value.  Keys are compared exactly.
RECURSIVE Spread(_, _)
Spread(a, b) ==
    IF b = <<>> THEN a
    ELSE LET p == Head(b)
             a2 == IF HasKey(a, p.k)
                   THEN [i \in DOMAIN a |-> IF a[i].k = p.k THEN p ELSE a[i]]
                   ELSE Append(a, p)
         IN  Spread(a2, Tail(b))

\* header names are case-insensitive: fetch() lower-cases them
Lower(k) ==
    CASE k = "Authorization" -> "authorization"
      [] k = "Content-Type"  -> "content-type"
      [] OTHER               -> k

\* new Headers(object): append each property in order; appending to a name
\* already present joins the values with ", "
RECURSIVE FillHeaders(_, _)
FillHeaders(h, o) ==
    IF o = <<>> THEN h
    ELSE LET p == Head(o)
             n == Lower(p.k)
             h2 == IF n \in DOMAIN h
                   THEN [h EXCEPT ![n] = @ \o ", " \o p.v]
                   ELSE h @@ (n :> p.v)
         IN  FillHeaders(h2, Tail(o))

NoHeaders == [n \in {} |-> ""]

WireHeaders(o) == FillHeaders(NoHeaders, o)

\* ------------------------------------------------------- caller options
InitDefault == [method |-> Undefined, headers |-> Undefined, body |-> Undefined]

InitJson == [method |-> "POST",
             headers |-> <<Prop("content-type", "application/json")>>,
             body |-> "json"]

InitOwnAuth == [method |-> "GET",
                headers |-> <<Prop("Authorization", "Bearer caller")>>,
                body |-> Undefined]

InitOwnAuthLower == [method |-> "GET",
                     headers |-> <<Prop("authorization", "Bearer caller")>>,
                     body |-> Undefined]

Inits == {InitDefault, InitJson, InitOwnAuth, InitOwnAuthLower}

Paths == {"/cases"}

\* init.headers || {}
InitHeaders(init) == IF init.headers = Undefined THEN <<>> ELSE init.headers

\* ------------------------------------------------------------- responses
Response(id, s) == [id |-> id, status |-> s, ok |-> (s >= 200 /\ s <= 299),
                    bodyUsed |-> FALSE]

NoResponse == [id |-> 0, status |-> 0, ok |-> FALSE, bodyUsed |-> FALSE]

Returned(r) == [kind |-> "return", value |-> r]

Thrown == [kind |-> "throw", value |-> NoResponse]

Pending == [kind |-> "pending", value |-> NoResponse]

\* ------------------------------------------------------------- apiFetch
\* variants of the merge: authHeaders() left out; the header built from
\* getToken() without the test for a stored credential; the credential read
\* once, by the first call, and reused
MergedHeaders_NoAuth(init) == InitHeaders(init)

MergedHeaders_Unconditional(init) ==
    Spread(<<Prop("Authorization", Bearer(getToken))>>, InitHeaders(init))

MergedHeaders_Cached(init) ==
    Spread(AuthHeadersFor(IF reqs = <<>> THEN getToken ELSE reqs[1].stored),
           InitHeaders(init))

\* variant: with nothing stored, the credential of the previous call is used
MergedHeaders_LastKnown(init) ==
    Spread(AuthHeadersFor(IF getToken = Absent /\ reqs # <<>>
                          THEN reqs[Len(reqs)].stored ELSE getToken),
           InitHeaders(init))

\* const headers = { ...authHeaders(), ...(init.headers || {}) }
\* variant: the header is built from the stored value itself, not from
\* what getToken() returns
MergedHeaders_RawSlot(init) == Spread(AuthHeadersFor(token), InitHeaders(init))

MergedHeaders(init) == Spread(authHeaders, InitHeaders(init))

\* variant: only the headers are handed to fetch()
Outbound_HeadersOnly(id, path, init, headers) ==
    [call |-> id, url |-> API \o path, method |-> Undefined,
     body |-> Undefined, headers |-> WireHeaders(headers)]

\* fetch(`${API}${path}`, { ...init, headers }): the request put on the wire
Outbound(id, path, init, headers) ==
    [call |-> id, url |-> API \o path, method |-> init.method,
     body |-> init.body, headers |-> WireHeaders(headers)]

\* apiFetch up to its await: one call record and one outbound request
NewCall(id, path, init, by) ==
    [path |-> path, init |-> init, by |-> by, stored |-> getToken,
     headers |-> MergedHeaders(init), state |-> "inflight",
     received |-> NoResponse, result |-> Pending]

Issue(calls, by) ==
    LET n == Len(reqs)
        k == Len(calls)
    IN  /\ reqs' = reqs \o [j \in 1..k |->
                        NewCall(n + j, calls[j].path, calls[j].init, by)]
        /\ outbox' = outbox \o [j \in 1..k |->
                        Outbound(n + j, calls[j].path, calls[j].init,
                                 MergedHeaders(calls[j].init))]

\* a page calls apiFetch(path, init)
ApiFetchCall(path, init) ==
    /\ Issue(<<[path |-> path, init |-> init]>>, "page")
    /\ UNCHANGED <<token, clearCalls, seen401, evicted, raced, reg, page, loads, env, scan>>

\* ------------------------------------- CasePage: the runs of loadAll
\* React state of the case page.  uploads: the requests of postMultipart
\* that have not settled.  caseItem, evidence, events: the run of
\* loadAll whose data is shown, 0 for the initial null / [].  err: the kind
\* of message shown, "null" for none.  post: postMultipart's position, the
\* request it handed to fetch() and the status it was answered with.
\* file: a file was selected when the request was sent.
NoPost == [pc |-> "idle", endpoint |-> Undefined, stored |-> Absent,
           headers |-> NoHeaders, status |-> 0, file |-> FALSE]

PageInit == [mounted |-> FALSE, replaced |-> FALSE, file |-> FALSE,
             busy |-> FALSE, err |-> "null",
             caseItem |-> 0, evidence |-> 0, events |-> 0,
             downloads |-> 0, post |-> NoPost, uploads |-> 0]

\* one run of loadAll: its three calls are first, first + 1, first + 2;
\* at: the call whose body it is reading; read: the calls whose body it
\* has started to read; err: the kind of error it ended with
NewLoad(first, by) == [first |-> first, by |-> by, pc |-> "all", at |-> 0,
                       read |-> {}, err |-> "null"]

CallsOf(l) == l.first .. l.first + 2

\* the state a step of the case page works on
Here(rs) == [reqs |-> rs, loads |-> loads, page |-> page]

Commit(st) ==
    /\ reqs' = st.reqs
    /\ loads' = st.loads
    /\ page' = st.page

\* variant: busy is not reset after the reload
LoadReturns_KeepBusy(pg, by) ==
    IF by = "post" THEN [pg EXCEPT !.post.pc = "idle"] ELSE pg

\* loadAll returns (it never throws).  A postMultipart awaiting it
\* continues: finally -> setBusy(false)
LoadReturns(pg, by) ==
    IF by = "post" THEN [pg EXCEPT !.busy = FALSE, !.post.pc = "idle"] ELSE pg

\* catch (e) -> setErr(e.message); loadAll returns
LoadFails(st, n, e) ==
    [st EXCEPT !.loads[n].pc = "done", !.loads[n].err = e,
               !.page = LoadReturns([@ EXCEPT !.err = e], st.loads[n].by)]

\* the end of the try block; loadAll returns
LoadSucceeds(st, n) ==
    [st EXCEPT !.loads[n].pc = "done",
               !.page = LoadReturns(@, st.loads[n].by)]

\* await r.text() / await r.json() on the response of call k: a body
\* already used rejects with a TypeError
ReadBody(st, n, k, pc) ==
    IF st.reqs[k].result.value.bodyUsed \/ k \in st.loads[n].read
    THEN LoadFails(st, n, "TypeError")
    ELSE [st EXCEPT !.loads[n].pc = pc, !.loads[n].at = k,
                    !.loads[n].read = @ \cup {k}]

Min(S) == CHOOSE k \in S : \A j \in S : k <= j

\* variant: only the first response is tested for ok
AfterAll_FirstOnly(st, n) ==
    IF ~st.reqs[st.loads[n].first].result.value.ok
    THEN ReadBody(st, n, st.loads[n].first, "text")
    ELSE ReadBody(st, n, st.loads[n].first, "json1")

\* lines 56-59 after Promise.all resolved: the first response that is not
\* ok is read as text, else the first is read as JSON
AfterAll(st, n) ==
    LET bad == {k \in CallsOf(st.loads[n]) : ~st.reqs[k].result.value.ok}
    IN  IF bad # {} THEN ReadBody(st, n, Min(bad), "text")
        ELSE ReadBody(st, n, st.loads[n].first, "json1")

\* call i of apiFetch has settled: a loadAll awaiting it in Promise.all
\* continues in the same task, when the call threw or all three returned
Settle(st, i) ==
    IF st.reqs[i].by # "loadAll" THEN st
    ELSE LET n == CHOOSE m \in DOMAIN st.loads : i \in CallsOf(st.loads[m])
         IN  IF st.loads[n].pc # "all" THEN st
             ELSE IF st.reqs[i].result.kind = "throw"
                  THEN LoadFails(st, n, "transport")
             ELSE IF \A k \in CallsOf(st.loads[n]) :
                        st.reqs[k].result.kind = "return"
                  THEN AfterAll(st, n)
             ELSE st

Settled(i, rs) == Commit(Settle(Here(rs), i))

\* variants of the status test: 5xx taken for an expired session too; 403
\* taken for 401; every 4xx status
IsUnauthorized_ServerError(r) == r.status = 401 \/ r.status >= 500

IsUnauthorized_Forbidden(r) == r.status = 403

IsUnauthorized_ClientError(r) == r.status >= 400 /\ r.status < 500

\* r.status === 401
IsUnauthorized(r) == r.status = 401

\* variant: the body of a 401 is read before the response is returned
ResultOf_BodyRead(r) == Returned([r EXCEPT !.bodyUsed = (r.status = 401)])

\* variant: a non-ok response is thrown instead of returned
ResultOf_ThrowOnError(r) == IF r.ok THEN Returned(r) ELSE Thrown

\* return r
ResultOf(r) == Returned(r)

\* the 401 for call i arrives while another credential than the one call i
\* was issued under is stored
RemovesOther(i, s) ==
    s = 401 /\ getToken # Absent /\ getToken # reqs[i].stored

\* variant: a 5xx answer is sent again
ApiFetchResume_Retry(i, s) ==
    /\ reqs[i].state = "inflight"
    /\ IF s >= 500 /\ Len(outbox) < 2 * Len(reqs)
       THEN /\ outbox' = Append(outbox, outbox[CHOOSE j \in DOMAIN outbox : outbox[j].call = i])
            /\ UNCHANGED <<token, reqs, clearCalls, seen401, evicted, raced, reg,
                           page, loads, env, scan>>
       ELSE /\ Settled(i, [reqs EXCEPT ![i].state = "returned",
                                       ![i].received = Response(i, s),
                                       ![i].result = Returned(Response(i, s))])
            /\ token' = IF s = 401 THEN Absent ELSE token
            /\ clearCalls' = IF s = 401 THEN clearCalls + 1 ELSE clearCalls
            /\ seen401' = IF s = 401 THEN seen401 + 1 ELSE seen401
            /\ evicted' = IF s = 401 THEN TRUE ELSE evicted
            /\ raced' = (raced \/ RemovesOther(i, s))
            /\ UNCHANGED <<outbox, reg, env, scan>>

\* variant: clearToken() is skipped when nothing is stored
ApiFetchResume_SkipIfAbsent(i, s) ==
    /\ reqs[i].state = "inflight"
    /\ IF s = 401 /\ getToken # Absent
       THEN /\ clearToken
            /\ clearCalls' = clearCalls + 1
       ELSE UNCHANGED <<token, clearCalls>>
    /\ seen401' = IF s = 401 THEN seen401 + 1 ELSE seen401
    /\ evicted' = IF s = 401 THEN TRUE ELSE evicted
    /\ raced' = (raced \/ RemovesOther(i, s))
    /\ Settled(i, [reqs EXCEPT ![i].state = "returned",
                               ![i].received = Response(i, s),
                               ![i].result = Returned(Response(i, s))])
    /\ UNCHANGED <<outbox, reg, env, scan>>

\* variant: the credential is removed only if it is still the one the
\* request was issued under
ApiFetchResume_Fenced(i, s) ==
    /\ reqs[i].state = "inflight"
    /\ IF s = 401 /\ getToken = reqs[i].stored
       THEN clearToken
       ELSE UNCHANGED token
    /\ clearCalls' = IF s = 401 THEN clearCalls + 1 ELSE clearCalls
    /\ seen401' = IF s = 401 THEN seen401 + 1 ELSE seen401
    /\ evicted' = IF s = 401 THEN TRUE ELSE evicted
    /\ raced' = (raced \/ RemovesOther(i, s))
    /\ Settled(i, [reqs EXCEPT ![i].state = "returned",
                               ![i].received = Response(i, s),
                               ![i].result = Returned(Response(i, s))])
    /\ UNCHANGED <<outbox, reg, env, scan>>

\* variant: an await between the status test and clearToken()
ApiFetchResume_AwaitBeforeClear(i, s) ==
    /\ \/ /\ reqs[i].state = "inflight"
          /\ s = 401
          /\ Settled(i, [reqs EXCEPT ![i].state = "checked",
                                     ![i].received = Response(i, s)])
          /\ seen401' = seen401 + 1
          /\ UNCHANGED <<token, clearCalls, evicted, raced>>
       \/ /\ reqs[i].state = "checked"
          /\ s = 401
          /\ clearToken
          /\ clearCalls' = clearCalls + 1
          /\ evicted' = TRUE
          /\ raced' = (raced \/ RemovesOther(i, s))
          /\ Settled(i, [reqs EXCEPT ![i].state = "returned",
                                     ![i].result = Returned(reqs[i].received)])
          /\ UNCHANGED seen401
       \/ /\ reqs[i].state = "inflight"
          /\ s # 401
          /\ Settled(i, [reqs EXCEPT ![i].state = "returned",
                                     ![i].received = Response(i, s),
                                     ![i].result = Returned(Response(i, s))])
          /\ UNCHANGED <<token, clearCalls, seen401, evicted, raced>>
    /\ UNCHANGED <<outbox, reg, env, scan>>

\* the fetch of call i resolves with status s: the rest of apiFetch
ApiFetchResume(i, s) ==
    LET r == Response(i, s)
    IN  /\ reqs[i].state = "inflight"
        /\ IF IsUnauthorized(r)
           THEN /\ clearToken
                /\ clearCalls' = clearCalls + 1
           ELSE UNCHANGED <<token, clearCalls>>
        /\ seen401' = IF s = 401 THEN seen401 + 1 ELSE seen401
        /\ evicted' = IF s = 401 THEN TRUE ELSE evicted
        /\ raced' = (raced \/ RemovesOther(i, s))
        /\ Settled(i, [reqs EXCEPT ![i].state = "returned",
                                   ![i].received = r,
                                   ![i].result = ResultOf(r)])
        /\ UNCHANGED <<outbox, reg, env, scan>>

\* variant: a transport failure is taken for an expired session
ApiFetchReject_Evict(i) ==
    /\ reqs[i].state = "inflight"
    /\ Settled(i, [reqs EXCEPT ![i].state = "failed", ![i].result = Thrown])
    /\ clearToken
    /\ UNCHANGED <<outbox, clearCalls, seen401, evicted, raced, reg, env, scan>>

\* the fetch of call i rejects (no response): the await throws out of apiFetch
ApiFetchReject(i) ==
    /\ reqs[i].state = "inflight"
    /\ Settled(i, [reqs EXCEPT ![i].state = "failed", ![i].result = Thrown])
    /\ UNCHANGED <<token, outbox, clearCalls, seen401, evicted, raced, reg, env, scan>>

\* ------------------------------------------------------ CasePage.loadAll
LoadAllCalls ==
    <<[path |-> "/cases/" \o caseId, init |-> InitDefault],
      [path |-> "/cases/" \o caseId \o "/evidence", init |-> InitDefault],
      [path |-> "/cases/" \o caseId \o "/events", init |-> InitDefault]>>

\* loadAll up to its await, called with the page state pg: setErr(null);
\* Promise.all([apiFetch(..), apiFetch(..), apiFetch(..)]): the three calls
\* run to their await one after the other, before anything else runs
StartLoad(pg, by) ==
    /\ Issue(LoadAllCalls, "loadAll")
    /\ loads' = Append(loads, NewLoad(Len(reqs) + 1, by))
    /\ page' = [pg EXCEPT !.err = "null"]

\* a case page calls loadAll()
LoadAll ==
    /\ StartLoad(page, "effect")
    /\ UNCHANGED <<token, clearCalls, seen401, evicted, raced, reg, env, scan>>

\* useEffect of the case page: if (!getToken()) router.replace("/login");
\* loadAll()
CaseMount ==
    /\ ~page.mounted
    /\ StartLoad([page EXCEPT !.mounted = TRUE,
                              !.replaced = (getToken = Absent)], "effect")
    /\ UNCHANGED <<token, clearCalls, seen401, evicted, raced, reg, env, scan>>

\* rc.text() of a response that was not ok resolves: throw new Error(text)
LoadText(n) ==
    /\ loads[n].pc = "text"
    /\ Commit(LoadFails(Here(reqs), n, "body"))
    /\ UNCHANGED <<token, outbox, clearCalls, seen401, evicted, raced, reg, env, scan>>

\* lines 59-61: the pending r.json() resolves (parsed) or rejects; the
\* state is set and the next body is read
LoadJson(n, parsed) ==
    LET l == loads[n]
        st == Here(reqs)
    IN  /\ l.pc \in {"json1", "json2", "json3"}
        /\ Commit(
             IF ~parsed THEN LoadFails(st, n, "parse")
             ELSE IF l.pc = "json1"
                  THEN ReadBody([st EXCEPT !.page.caseItem = n], n,
                                l.first + 1, "json2")
             ELSE IF l.pc = "json2"
                  THEN ReadBody([st EXCEPT !.page.evidence = n], n,
                                l.first + 2, "json3")
             ELSE LoadSucceeds([st EXCEPT !.page.events = n], n))
        /\ UNCHANGED <<token, outbox, clearCalls, seen401, evicted, raced, reg, env, scan>>

\* ------------------------------------------------ CasePage.postMultipart
Endpoints == {"/analyze", "/report"}

\* <input type="file" onChange>: setFile(file)
ChooseFile ==
    /\ page.mounted
    /\ ~page.file
    /\ page' = [page EXCEPT !.file = TRUE]
    /\ UNCHANGED <<token, reqs, outbox, clearCalls, seen401, evicted, raced,
                   reg, loads, env, scan>>

\* fetch() gives a FormData body its multipart content type
PostHeaders ==
    WireHeaders(Spread(authHeaders, <<>>)) @@
        ("content-type" :> "multipart/form-data")

\* postMultipart up to its await, on the page state pg
PostSent(pg, e) ==
    [pg EXCEPT !.busy = TRUE, !.err = "null",
               !.uploads = @ + 1,
               !.post = [pc |-> "fetch", endpoint |-> e, stored |-> getToken,
                         headers |-> PostHeaders, status |-> 0,
                         file |-> pg.file]]

\* variant: the buttons are not disabled while busy
PostStart_NotDisabled(e) ==
    /\ page.mounted
    /\ page.file
    /\ page' = PostSent(page, e)
    /\ UNCHANGED <<token, reqs, outbox, clearCalls, seen401, evicted, raced,
                   reg, loads, env, scan>>

\* the button is disabled={!file || busy}.  setBusy(true); setErr(null);
\* fetch(`${API}${endpoint}`, { method: "POST", headers: {...authHeaders()},
\* body: fd }): the request does not pass through apiFetch
PostStart(e) ==
    /\ page.mounted
    /\ page.file
    /\ ~page.busy
    /\ page' = PostSent(page, e)
    /\ UNCHANGED <<token, reqs, outbox, clearCalls, seen401, evicted, raced,
                   reg, loads, env, scan>>

\* catch (e) -> setErr(e.message); finally -> setBusy(false)
PostFails(e) ==
    /\ page' = [page EXCEPT !.err = e, !.busy = FALSE, !.post.pc = "idle"]
    /\ UNCHANGED <<token, reqs, outbox, clearCalls, seen401, evicted, raced,
                   reg, loads, env, scan>>

\* the fetch of postMultipart resolves with status s: !r.ok -> await
\* r.text(); "/report" -> await r.blob(); else await r.json()
PostResponse(s) ==
    /\ page.post.pc = "fetch"
    /\ page' = [page EXCEPT
                  !.uploads = @ - 1,
                  !.post.status = s,
                  !.post.pc = IF ~Response(0, s).ok THEN "text"
                              ELSE IF page.post.endpoint = "/report" THEN "blob"
                              ELSE "json"]
    /\ UNCHANGED <<token, reqs, outbox, clearCalls, seen401, evicted, raced,
                   reg, loads, env, scan>>

\* the fetch of postMultipart rejects
PostReject ==
    /\ page.post.pc = "fetch"
    /\ page' = [page EXCEPT !.uploads = @ - 1, !.err = "transport",
                            !.busy = FALSE, !.post.pc = "idle"]
    /\ UNCHANGED <<token, reqs, outbox, clearCalls, seen401, evicted, raced,
                   reg, loads, env, scan>>

\* r.text() resolves: throw new Error(text)
PostText ==
    /\ page.post.pc = "text"
    /\ PostFails("body")

\* r.blob() / r.json() rejects
PostBodyFails ==
    /\ page.post.pc \in {"blob", "json"}
    /\ PostFails("parse")

\* r.blob() resolves: the report is downloaded; r.json() resolves; then
\* await loadAll()
PostBody ==
    /\ page.post.pc \in {"blob", "json"}
    /\ StartLoad([page EXCEPT !.post.pc = "load",
                              !.downloads = IF page.post.pc = "blob"
                                            THEN @ + 1 ELSE @], "post")
    /\ UNCHANGED <<token, clearCalls, seen401, evicted, raced, reg, env, scan>>

\* ------------------------------------------------- RegisterPage.onSubmit
\* status: the status of the response onSubmit holds in r, 0 when it holds none
\* data: data.token of the last submission that reached setToken
RegIdle == [pc |-> "idle", busy |-> FALSE, error |-> FALSE, replaced |-> FALSE,
            status |-> 0, data |-> Absent]

\* submit: setBusy(true); setError(null); fetch(`${API}/auth/register`)
RegSubmit ==
    /\ reg.pc = "idle"
    /\ ~reg.busy
    /\ reg' = [pc |-> "fetch", busy |-> TRUE, error |-> FALSE, replaced |-> FALSE,
               status |-> 0, data |-> Absent]
    /\ UNCHANGED <<token, reqs, outbox, clearCalls, seen401, evicted, raced,
                   page, loads, env, scan>>

\* variant: the test of r.ok is missing
RegResponse_IgnoreOk(s) ==
    /\ reg.pc = "fetch"
    /\ reg' = [reg EXCEPT !.pc = "json", !.status = s]
    /\ UNCHANGED <<token, reqs, outbox, clearCalls, seen401, evicted, raced,
                   page, loads, env, scan>>

\* the register fetch resolves: !r.ok -> await r.text(); else await r.json()
RegResponse(s) ==
    /\ reg.pc = "fetch"
    /\ reg' = [reg EXCEPT !.pc = IF Response(0, s).ok THEN "json" ELSE "text",
                          !.status = s]
    /\ UNCHANGED <<token, reqs, outbox, clearCalls, seen401, evicted, raced,
                   page, loads, env, scan>>

\* the fetch or a body read rejects, or r.text() resolves and is thrown:
\* catch -> setError; finally -> setBusy(false)
RegFail ==
    /\ reg.pc \in {"fetch", "text", "json"}
    /\ reg' = [reg EXCEPT !.pc = "idle", !.busy = FALSE, !.error = TRUE,
                          !.status = 0]
    /\ UNCHANGED <<token, reqs, outbox, clearCalls, seen401, evicted, raced,
                   page, loads, env, scan>>

\* r.json() resolves: setToken(data.token); router.replace(next);
\* finally -> setBusy(false)
RegSuccess(t) ==
    /\ reg.pc = "json"
    /\ setToken(t)
    /\ evicted' = FALSE
    /\ reg' = [reg EXCEPT !.pc = "idle", !.busy = FALSE, !.replaced = TRUE,
                          !.status = 0, !.data = t]
    /\ UNCHANGED <<reqs, outbox, clearCalls, seen401, raced, page, loads, env, scan>>

\* ---------------------------------------------------------------- logout
Logout ==
    /\ getToken # Absent
    /\ clearToken
    /\ UNCHANGED <<reqs, outbox, clearCalls, seen401, evicted, raced, reg,
                   page, loads, env, scan>>

\* ------------------------------------------------------ Page (quick scan)
\* React state of the page and the requests its handlers have sent.
\* error: the kind of message shown, "null" for none.  cases: the list of
\* cases has been loaded.  result: an analysis is shown.
ScanInit == [mounted |-> FALSE, file |-> FALSE, busy |-> FALSE,
             error |-> "null", result |-> FALSE, cases |-> FALSE,
             leadStatus |-> "idle", downloads |-> 0, runs |-> <<>>]

\* one request of the page and the handler awaiting it.  by: "list" (the
\* useEffect), "analyze", "report", "lead".  status: 0 until answered.
\* failed: the fetch rejected.  surfaced: the handler has set an error
\* state for it.  file: a file was selected when it was sent.
NewScanRun(by, path, method, hdrs) ==
    [by |-> by, pc |-> "fetch", base |-> DEFAULT_API, path |-> path,
     method |-> method, headers |-> WireHeaders(hdrs), status |-> 0,
     failed |-> FALSE, surfaced |-> FALSE, file |-> scan.file]

ScanUploads == {"analyze", "report"}

ScanUnchanged ==
    UNCHANGED <<token, reqs, outbox, clearCalls, seen401, evicted, raced, reg,
                page, loads, env>>

\* useEffect: fetch(`${API}/cases`)
ScanMount ==
    /\ ~scan.mounted
    /\ scan' = [scan EXCEPT
                  !.mounted = TRUE,
                  !.runs = Append(@, NewScanRun("list", "/cases", Undefined, <<>>))]
    /\ ScanUnchanged

\* <Input type="file" onChange>: setFile(e.target.files?.[0] || null)
ScanSetFile(f) ==
    /\ scan.mounted
    /\ scan.file # f
    /\ scan' = [scan EXCEPT !.file = f]
    /\ ScanUnchanged

\* post(endpoint) up to its await: the headers name the actor only
PostRun(by) ==
    NewScanRun(by, "/" \o by, "POST",
               <<Prop("x-truthstamp-actor", "web"),
                 Prop("content-type", "multipart/form-data")>>)

\* variant: the buttons are not disabled while busy
ScanUpload_NotDisabled(by) ==
    /\ scan.mounted
    /\ scan.file
    /\ scan' = [scan EXCEPT
                  !.busy = TRUE, !.error = "null",
                  !.result = IF by = "analyze" THEN FALSE ELSE @,
                  !.runs = Append(@, PostRun(by))]
    /\ ScanUnchanged

\* onAnalyze / onReport up to the await in post(); the buttons are
\* disabled={!file || busy}
ScanUpload(by) ==
    /\ scan.mounted
    /\ scan.file
    /\ ~scan.busy
    /\ scan' = [scan EXCEPT
                  !.busy = TRUE, !.error = "null",
                  !.result = IF by = "analyze" THEN FALSE ELSE @,
                  !.runs = Append(@, PostRun(by))]
    /\ ScanUnchanged

\* onJoinPilot up to its await; the button is disabled={!email}
ScanLead ==
    /\ scan.mounted
    /\ scan' = [scan EXCEPT
                  !.leadStatus = "idle",
                  !.runs = Append(@, NewScanRun("lead", "/lead", "POST",
                              <<Prop("Content-Type", "application/json")>>))]
    /\ ScanUnchanged

\* the handler of run k ends with its error state set: catch -> setError,
\* finally -> setBusy(false) in the uploads; setLeadStatus("err") in
\* onJoinPilot; nothing in the useEffect (`return`, `catch {}`)
ScanFails(sc, k, e) ==
    LET by == sc.runs[k].by
    IN  IF by \in ScanUploads
        THEN [sc EXCEPT !.error = e, !.busy = FALSE,
                        !.runs[k].pc = "done", !.runs[k].surfaced = TRUE]
        ELSE IF by = "lead"
        THEN [sc EXCEPT !.leadStatus = "err",
                        !.runs[k].pc = "done", !.runs[k].surfaced = TRUE]
        ELSE [sc EXCEPT !.runs[k].pc = "done"]

\* the fetch of run k resolves with status s
ScanResponse(k, s) ==
    LET by == scan.runs[k].by
        sc == [scan EXCEPT !.runs[k].status = s]
    IN  /\ scan.runs[k].pc = "fetch"
        /\ scan' = IF ~Response(0, s).ok
                   THEN IF by = "list" THEN ScanFails(sc, k, "null")
                        ELSE [sc EXCEPT !.runs[k].pc = "text"]
                   ELSE IF by = "lead"
                        THEN [sc EXCEPT !.leadStatus = "ok", !.runs[k].pc = "done"]
                        ELSE [sc EXCEPT !.runs[k].pc = "body"]
        /\ ScanUnchanged

\* the fetch of run k rejects
ScanReject(k) ==
    /\ scan.runs[k].pc = "fetch"
    /\ scan' = ScanFails([scan EXCEPT !.runs[k].failed = TRUE], k, "transport")
    /\ ScanUnchanged

\* r.text() of run k resolves: throw new Error(..)
ScanText(k) ==
    /\ scan.runs[k].pc = "text"
    /\ scan' = ScanFails(scan, k, "body")
    /\ ScanUnchanged

\* r.json() / r.blob() of run k resolves (parsed) or rejects
ScanBody(k, parsed) ==
    LET by == scan.runs[k].by
    IN  /\ scan.runs[k].pc = "body"
        /\ scan' = IF ~parsed THEN ScanFails(scan, k, "parse")
                   ELSE IF by = "list"
                        THEN [scan EXCEPT !.cases = TRUE, !.runs[k].pc = "done"]
                   ELSE IF by = "analyze"
                        THEN [scan EXCEPT !.result = TRUE, !.busy = FALSE,
                                          !.runs[k].pc = "done"]
                   ELSE [scan EXCEPT !.downloads = @ + 1, !.busy = FALSE,
                                     !.runs[k].pc = "done"]
        /\ ScanUnchanged

\* ---------------------------------------------------------- specification
\* nothing configured, storage available
EnvDefault == [NEXT_PUBLIC_API_URL |-> Undefined, storage |-> TRUE]

Init ==
    /\ token = Absent
    /\ reqs = <<>>
    /\ outbox = <<>>
    /\ clearCalls = 0
    /\ seen401 = 0
    /\ evicted = FALSE
    /\ raced = FALSE
    /\ reg = RegIdle
    /\ page = PageInit
    /\ loads = <<>>
    /\ env = EnvDefault
    /\ scan = ScanInit

\* the dispatcher as the case page uses it: no caller options
Next ==
    \/ \E p \in Paths :
          Len(reqs) + 1 <= MaxPageCalls /\ ApiFetchCall(p, InitDefault)
    \/ Len(reqs) + 3 <= MaxCalls /\ LoadAll
    \/ \E i \in DOMAIN reqs, s \in Statuses : ApiFetchResume(i, s)
    \/ \E i \in DOMAIN reqs : ApiFetchReject(i)
    \/ RegSubmit
    \/ \E s \in Statuses : RegResponse(s)
    \/ RegFail
    \/ \E t \in Tokens : RegSuccess(t)
    \/ Logout

Spec == Init /\ [][Next]_vars

\* the dispatcher called with caller options; the answers that matter to the
\* headers of later calls are the 401s
NextHeaders ==
    \/ \E p \in Paths, init \in Inits :
          Len(reqs) + 1 <= MaxPageCalls /\ ApiFetchCall(p, init)
    \/ \E i \in DOMAIN reqs : ApiFetchResume(i, 401)
    \/ RegSubmit
    \/ \E s \in {200, 401} : RegResponse(s)
    \/ RegFail
    \/ \E t \in Tokens : RegSuccess(t)
    \/ Logout

SpecHeaders == Init /\ [][NextHeaders]_vars

\* the dispatcher called without options, answered with any status
NextStatus ==
    \/ \E p \in Paths :
          Len(reqs) + 1 <= MaxPageCalls /\ ApiFetchCall(p, InitDefault)
    \/ \E i \in DOMAIN reqs, s \in AllStatuses : ApiFetchResume(i, s)
    \/ RegSubmit
    \/ \E s \in AllStatuses : RegResponse(s)
    \/ RegFail
    \/ \E t \in Tokens : RegSuccess(t)
    \/ Logout

SpecStatus == Init /\ [][NextStatus]_vars

\* the case page, opened in a browser that holds a credential or none
InitCase ==
    /\ token \in {Absent, "abc123"}
    /\ reqs = <<>>
    /\ outbox = <<>>
    /\ clearCalls = 0
    /\ seen401 = 0
    /\ evicted = FALSE
    /\ raced = FALSE
    /\ reg = RegIdle
    /\ page = PageInit
    /\ loads = <<>>
    /\ env = EnvDefault
    /\ scan = ScanInit

\* the uploads are answered with any status, the calls of loadAll with 200
\* or 401
NextCase ==
    \/ CaseMount
    \/ ChooseFile
    \/ \E e \in Endpoints : Len(loads) + 1 <= MaxLoads /\ PostStart(e)
    \/ \E s \in Statuses : PostResponse(s)
    \/ PostReject
    \/ PostText
    \/ PostBodyFails
    \/ PostBody
    \/ \E i \in DOMAIN reqs, s \in {200, 401} : ApiFetchResume(i, s)
    \/ \E n \in DOMAIN loads : LoadText(n)
    \/ \E n \in DOMAIN loads, parsed \in BOOLEAN : LoadJson(n, parsed)

SpecCase == InitCase /\ [][NextCase]_vars

\* one case page loading its case: any status, transport failures, bodies
\* that do not parse
NextLoad ==
    \/ CaseMount
    \/ \E i \in DOMAIN reqs, s \in Statuses : ApiFetchResume(i, s)
    \/ \E i \in DOMAIN reqs : ApiFetchReject(i)
    \/ \E n \in DOMAIN loads : LoadText(n)
    \/ \E n \in DOMAIN loads, parsed \in BOOLEAN : LoadJson(n, parsed)

SpecLoad == InitCase /\ [][NextLoad]_vars

\* the quick-scan page, with the base address configured or not; it treats
\* every status that is not 2xx alike
InitScan ==
    /\ token \in {Absent, "abc123"}
    /\ reqs = <<>>
    /\ outbox = <<>>
    /\ clearCalls = 0
    /\ seen401 = 0
    /\ evicted = FALSE
    /\ raced = FALSE
    /\ reg = RegIdle
    /\ page = PageInit
    /\ loads = <<>>
    /\ env \in [NEXT_PUBLIC_API_URL : ApiUrls, storage : {TRUE}]
    /\ scan = ScanInit

NextScan ==
    \/ ScanMount
    \/ \E f \in BOOLEAN : ScanSetFile(f)
    \/ \E by \in ScanUploads :
          Len(scan.runs) + 1 <= MaxScanCalls /\ ScanUpload(by)
    \/ Len(scan.runs) + 1 <= MaxScanCalls /\ ScanLead
    \/ \E k \in DOMAIN scan.runs, s \in {200, 500} : ScanResponse(k, s)
    \/ \E k \in DOMAIN scan.runs : ScanReject(k)
    \/ \E k \in DOMAIN scan.runs : ScanText(k)
    \/ \E k \in DOMAIN scan.runs, parsed \in BOOLEAN : ScanBody(k, parsed)

SpecScan == InitScan /\ [][NextScan]_vars

\* the uploads of both pages; the reload after an upload of the case page
\* is left pending
NextUploads ==
    \/ ScanMount
    \/ \E f \in BOOLEAN : ScanSetFile(f)
    \/ \E by \in ScanUploads :
          Len(scan.runs) + 1 <= MaxScanCalls /\ ScanUpload(by)
    \/ \E k \in DOMAIN scan.runs, s \in {200, 500} : ScanResponse(k, s)
    \/ \E k \in DOMAIN scan.runs : ScanReject(k)
    \/ \E k \in DOMAIN scan.runs : ScanText(k)
    \/ \E k \in DOMAIN scan.runs, parsed \in BOOLEAN : ScanBody(k, parsed)
    \/ CaseMount
    \/ ChooseFile
    \/ \E e \in Endpoints : Len(loads) + 1 <= MaxLoads /\ PostStart(e)
    \/ \E s \in {200, 500} : PostResponse(s)
    \/ PostReject
    \/ PostText
    \/ PostBodyFails
    \/ PostBody

SpecUploads == Init /\ [][NextUploads]_vars

\* the storage medium is unavailable; it may still hold a credential
\* written while it was available
InitStorage ==
    /\ token \in {Absent, "abc123"}
    /\ reqs = <<>>
    /\ outbox = <<>>
    /\ clearCalls = 0
    /\ seen401 = 0
    /\ evicted = FALSE
    /\ raced = FALSE
    /\ reg = RegIdle
    /\ page = PageInit
    /\ loads = <<>>
    /\ env = [EnvDefault EXCEPT !.storage = FALSE]
    /\ scan = ScanInit

NextStorage ==
    \/ \E p \in Paths, init \in Inits :
          Len(reqs) + 1 <= MaxPageCalls /\ ApiFetchCall(p, init)
    \/ \E i \in DOMAIN reqs, s \in Statuses : ApiFetchResume(i, s)
    \/ \E i \in DOMAIN reqs : ApiFetchReject(i)
    \/ RegSubmit
    \/ \E s \in Statuses : RegResponse(s)
    \/ RegFail
    \/ \E t \in Tokens : RegSuccess(t)

SpecStorage == InitStorage /\ [][NextStorage]_vars

\* one browser tab: it shows one page, the register page, the case page or
\* the quick-scan page
OnlyRegister == ~page.mounted /\ ~scan.mounted

OnlyCase == reg = RegIdle /\ ~scan.mounted

OnlyScan == reg = RegIdle /\ ~page.mounted

NextTab ==
    \/ OnlyRegister /\ RegSubmit
    \/ OnlyRegister /\ \E s \in Statuses : RegResponse(s)
    \/ OnlyRegister /\ RegFail
    \/ OnlyRegister /\ \E t \in Tokens : RegSuccess(t)
    \/ OnlyCase /\ NextCase
    \/ OnlyScan /\ NextScan

SpecTab == InitCase /\ [][NextTab]_vars

TypeOK ==
    /\ token \in Tokens \cup {Absent}
    /\ Len(outbox) = Len(reqs)
    /\ clearCalls \in Nat
    /\ seen401 \in Nat
\* ===================================================================
\* Properties
\* ===================================================================
\* the outbound requests of call i
OutboundOf(i) == {j \in DOMAIN outbox : outbox[j].call = i}

\* the caller passes an authorization header of its own, in any spelling
CallerSuppliesAuth(init) ==
    \E j \in DOMAIN InitHeaders(init) : Lower(InitHeaders(init)[j].k) = "authorization"

\* call i got a response with status s in this step
ReturnsNow(i, s) ==
    /\ i \in DOMAIN reqs
    /\ reqs[i].state = "inflight"
    /\ reqs'[i].state = "returned"
    /\ reqs'[i].received.status = s

\* call i failed in transport in this step
FailsNow(i) ==
    /\ i \in DOMAIN reqs
    /\ reqs[i].state = "inflight"
    /\ reqs'[i].state = "failed"

Num401Returned ==
    Cardinality({i \in DOMAIN reqs :
                   reqs[i].state = "returned" /\ reqs[i].received.status = 401})

\* C1: once a dispatcher request has been answered 401, and as long as
\* setToken() has not been called since, getToken() returns absent, whatever
\* credential was stored.
C1_EvictionOn401 == evicted => getToken = Absent

\* a request issued with a credential stored has been answered 401 and the
\* store is now empty
C1_Witness ==
    \E i \in DOMAIN reqs :
        /\ reqs[i].stored \in Tokens
        /\ reqs[i].state = "returned"
        /\ reqs[i].received.status = 401
        /\ evicted
        /\ getToken = Absent

\* C2: a response with any status other than 401 (200, 403, 500) leaves the
\* token store as it was.
C2_NoEvictionOnOtherStatus ==
    [][\A i \in DOMAIN reqs, s \in AllStatuses \ {401} :
          ReturnsNow(i, s) => getToken' = getToken]_vars

\* two requests issued under "tok2" were answered 403 and 500, and "tok2"
\* is still stored
C2_Witness ==
    \E i, k \in DOMAIN reqs :
        /\ reqs[i].state = "returned" /\ reqs[i].received.status = 403
        /\ reqs[k].state = "returned" /\ reqs[k].received.status = 500
        /\ reqs[i].stored = "tok2" /\ reqs[k].stored = "tok2"
        /\ ~evicted
        /\ getToken = "tok2"

\* C3: a call made while credential T is stored, whose caller passes no
\* authorization header, is sent with the authorization header "Bearer T".
C3_HeaderInjection ==
    \A i \in DOMAIN reqs :
        (reqs[i].stored # Absent /\ ~CallerSuppliesAuth(reqs[i].init)) =>
            /\ OutboundOf(i) # {}
            /\ \A j \in OutboundOf(i) :
                 /\ "authorization" \in DOMAIN outbox[j].headers
                 /\ outbox[j].headers["authorization"] = Bearer(reqs[i].stored)

\* a call with a content-type header of the caller, made with "tok2" stored
C3_Witness ==
    \E i \in DOMAIN reqs :
        /\ reqs[i].stored = "tok2"
        /\ reqs[i].init = InitJson
        /\ outbox[i].headers["authorization"] = "Bearer tok2"
        /\ outbox[i].headers["content-type"] = "application/json"

\* C4: a call made while nothing is stored, whose caller passes no
\* authorization header, is sent without an authorization header.
C4_NoInjectionWhenAbsent ==
    \A i \in DOMAIN reqs :
        (reqs[i].stored = Absent /\ ~CallerSuppliesAuth(reqs[i].init)) =>
            \A j \in OutboundOf(i) : "authorization" \notin DOMAIN outbox[j].headers

\* a call made after the credential was evicted, sent without the header
C4_Witness ==
    \E i \in DOMAIN reqs :
        /\ reqs[i].stored = Absent
        /\ reqs[i].init = InitJson
        /\ evicted
        /\ DOMAIN outbox[i].headers = {"content-type"}

\* b laid over a: b's value for every name of b, a's value for the others
Overlay(a, b) ==
    [n \in DOMAIN a \cup DOMAIN b |-> IF n \in DOMAIN b THEN b[n] ELSE a[n]]

\* C5: the headers sent are the injected authorization header overlaid by
\* the caller's headers: for a name present in both, the caller's value is
\* the one sent, and the caller's other headers are sent unchanged.
C5_CallerPrecedence ==
    \A i \in DOMAIN reqs : \A j \in OutboundOf(i) :
        outbox[j].headers =
            Overlay(WireHeaders(AuthHeadersFor(reqs[i].stored)),
                    WireHeaders(InitHeaders(reqs[i].init)))

\* C6: the headers a request was sent with are those built from the token
\* store as it was when the call was made, whatever happens to the store
\* while the request is in flight or afterwards.
C6_IssueTimeRead ==
    \A i \in DOMAIN reqs :
        /\ OutboundOf(i) # {}
        /\ \A j \in OutboundOf(i) :
             outbox[j].headers =
                 WireHeaders(Spread(AuthHeadersFor(reqs[i].stored),
                                    InitHeaders(reqs[i].init)))

\* a request issued under "abc123" is still in flight after a new
\* registration stored "tok2"
C6_Witness ==
    \E i \in DOMAIN reqs :
        /\ reqs[i].state = "inflight"
        /\ reqs[i].stored = "abc123"
        /\ getToken = "tok2"
        /\ outbox[i].headers["authorization"] = "Bearer abc123"

\* C7: every response received is returned to the caller as it is, a 401
\* included; apiFetch does not throw on a response.
C7_ResponseReturned ==
    \A i \in DOMAIN reqs :
        reqs[i].state = "returned" =>
            /\ reqs[i].result.kind = "return"
            /\ reqs[i].result.value = reqs[i].received
            /\ reqs[i].received.id = i
            /\ reqs[i].received.status \in AllStatuses

\* a 401 and a 500 were both returned, after the eviction
C7_Witness ==
    \E i, k \in DOMAIN reqs :
        /\ reqs[i].result = Returned(Response(i, 401))
        /\ reqs[k].result = Returned(Response(k, 500))
        /\ clearCalls = 1

\* C8: a transport failure makes apiFetch fail to its caller and changes
\* nothing in the token store; clearToken() is not called.
C8_TransportFailure ==
    [][\A i \in DOMAIN reqs :
          FailsNow(i) => /\ reqs'[i].result.kind = "throw"
                         /\ getToken' = getToken
                         /\ clearCalls' = clearCalls]_vars

\* a request failed in transport while a credential is stored
C8_Witness ==
    \E i \in DOMAIN reqs :
        /\ reqs[i].state = "failed"
        /\ reqs[i].result.kind = "throw"
        /\ reqs[i].stored \in Tokens
        /\ getToken = reqs[i].stored

\* C9: every call of apiFetch has put exactly one request on the wire,
\* whether it is in flight, answered (200, 401, 500) or failed.
C9_FireOnce ==
    \A i \in DOMAIN reqs : Cardinality(OutboundOf(i)) = 1

\* three settled calls: one answered 500, one answered 401, one failed
C9_Witness ==
    \E i, k, l \in DOMAIN reqs :
        /\ reqs[i].state = "returned" /\ reqs[i].received.status = 500
        /\ reqs[k].state = "returned" /\ reqs[k].received.status = 401
        /\ reqs[l].state = "failed"
        /\ Len(outbox) = 3

\* C10: apiFetch has called clearToken() exactly once for each 401 it has
\* received, however many requests were in flight; a 401 arriving when
\* nothing is stored is returned like the others and leaves the store empty.
C10_OneEvictionPer401 ==
    /\ clearCalls = seen401
    /\ seen401 = Num401Returned
    /\ \A i \in DOMAIN reqs :
         (reqs[i].state = "returned" /\ reqs[i].received.status = 401) =>
             reqs[i].result.kind = "return"
    /\ (seen401 > 0 /\ evicted) => getToken = Absent

\* the three requests of one loadAll, issued under one credential, were all
\* answered 401
C10_Witness ==
    /\ Len(reqs) = 3
    /\ \A i \in DOMAIN reqs :
         /\ reqs[i].by = "loadAll"
         /\ reqs[i].stored = "abc123"
         /\ reqs[i].received.status = 401
    /\ clearCalls = 3
    /\ getToken = Absent
\* ---- the session as seen through the token store ----
\* onSubmit reaches setToken in this step
SetsNow == reg.pc = "json" /\ reg'.pc = "idle" /\ ~reg'.error

\* an explicit clear(): the store changes and nothing else does
LogsOutNow == reqs' = reqs /\ reg' = reg /\ clearCalls' = clearCalls

\* apiFetch calls clearToken() in this step
ClearsNow == clearCalls' # clearCalls

\* C11: nothing fences the eviction: a 401 for a request issued under one
\* credential empties the store also when another credential has been
\* stored since the request was issued.
C11_LastWriteWins ==
    [][\A i \in DOMAIN reqs :
          (ReturnsNow(i, 401) /\ getToken # reqs[i].stored) =>
              getToken' = Absent]_vars

\* the one 401 received answered a request issued under "abc123"; it
\* removed another credential, stored by a registration while the request
\* was in flight, and the store is empty
C11_Witness ==
    /\ Len(reqs) = 1
    /\ reqs[1].stored = "abc123"
    /\ reqs[1].state = "returned"
    /\ reqs[1].received.status = 401
    /\ seen401 = 1
    /\ raced
    /\ reg.replaced
    /\ reg.data = "tok2"
    /\ getToken = Absent

\* C12: the store changes only by setToken() in onSubmit (to a credential),
\* by an explicit clear() or by apiFetch receiving a 401 (to absent);
\* issuing a request, a response other than 401 and a transport failure
\* leave it as it is.
C12_SessionStateMachine ==
    [][getToken' # getToken =>
          \/ SetsNow /\ getToken' \in Tokens
          \/ getToken' = Absent /\ LogsOutNow
          \/ getToken' = Absent /\ \E i \in DOMAIN reqs : ReturnsNow(i, 401)]_vars

\* a credential is stored again after an eviction, with a request answered
\* 500 and one failed in transport behind it
C12_Witness ==
    /\ getToken \in Tokens
    /\ ~evicted
    /\ \E i, k, l \in DOMAIN reqs :
         /\ reqs[i].state = "returned" /\ reqs[i].received.status = 401
         /\ reqs[i].stored \in Tokens
         /\ reqs[k].state = "returned" /\ reqs[k].received.status = 500
         /\ reqs[l].state = "failed"

\* C13: a call made while the store is empty is sent without an
\* authorization header, unless the caller passes one.
C13_NoStaleCredential ==
    [][\A i \in DOMAIN reqs' \ DOMAIN reqs :
          (getToken = Absent /\ ~CallerSuppliesAuth(reqs'[i].init)) =>
              \A j \in DOMAIN outbox' :
                  outbox'[j].call = i =>
                      "authorization" \notin DOMAIN outbox'[j].headers]_vars

\* a call issued under a credential was answered 401, and a later call,
\* issued with the store empty, was sent with no header at all
C13_Witness ==
    \E k, i \in DOMAIN reqs :
        /\ k < i
        /\ reqs[k].stored \in Tokens
        /\ reqs[k].state = "returned" /\ reqs[k].received.status = 401
        /\ reqs[i].stored = Absent
        /\ reqs[i].init = InitDefault
        /\ outbox[i].headers = NoHeaders
        /\ evicted

\* C15: every clearToken() of apiFetch leaves the store empty and the
\* response returned, also when the store was empty already.
C15_IdempotentClear ==
    [][ClearsNow =>
          /\ getToken' = Absent
          /\ \A i \in DOMAIN reqs :
               ReturnsNow(i, 401) => reqs'[i].result.kind = "return"]_vars

\* two requests issued with the store empty were answered 401, each time
\* with the store empty
C15_Witness ==
    \E i, k \in DOMAIN reqs :
        /\ i # k
        /\ reqs[i].stored = Absent /\ reqs[k].stored = Absent
        /\ reqs[i].result = Returned(Response(i, 401))
        /\ reqs[k].result = Returned(Response(k, 401))
        /\ ~raced
        /\ clearCalls = 2
        /\ getToken = Absent

\* C16: right after setToken(T), getToken() is T, whatever was stored.
C16_SetGetRoundTrip ==
    [][SetsNow => (reg'.data \in Tokens /\ getToken' = reg'.data)]_vars

\* "tok2" was stored over "abc123", under which a request is still in flight
C16_Witness ==
    /\ reg.replaced
    /\ reg.data = "tok2"
    /\ getToken = "tok2"
    /\ ~raced
    /\ \E i \in DOMAIN reqs :
         reqs[i].stored = "abc123" /\ reqs[i].state = "inflight"

\* C17: the request is sent to API + path with the caller's method and
\* body; only the headers are those apiFetch merged.
C17_OptionsPassThrough ==
    \A i \in DOMAIN reqs : \A j \in OutboundOf(i) :
        /\ outbox[j].url = API \o reqs[i].path
        /\ outbox[j].method = reqs[i].init.method
        /\ outbox[j].body = reqs[i].init.body
        /\ outbox[j].headers = WireHeaders(reqs[i].headers)

\* a POST with a JSON body, sent as such with the credential added
C17_Witness ==
    \E i \in DOMAIN reqs :
        /\ reqs[i].init = InitJson
        /\ outbox[i].url = "http://localhost:10000/cases"
        /\ outbox[i].method = "POST"
        /\ outbox[i].body = "json"
        /\ DOMAIN outbox[i].headers = {"authorization", "content-type"}

\* C19: a call is issued in one step (credential read, request handed to
\* fetch, store untouched) and a response is handled in one step (status
\* test, clearToken() on 401, return): a call is never between the two.
C19_OneSuspensionPoint ==
    [][\A i \in DOMAIN reqs' :
          /\ reqs'[i].state \in {"inflight", "returned", "failed"}
          /\ i \notin DOMAIN reqs =>
               /\ reqs'[i].state = "inflight"
               /\ reqs'[i].stored = getToken
               /\ getToken' = getToken
               /\ \E j \in DOMAIN outbox' \ DOMAIN outbox : outbox'[j].call = i
          /\ (i \in DOMAIN reqs /\ ReturnsNow(i, 401)) =>
               /\ getToken' = Absent
               /\ clearCalls' = clearCalls + 1]_vars

\* a 401 was handled while another request, issued since under a new
\* credential, is in flight
C19_Witness ==
    \E i, k \in DOMAIN reqs :
        /\ i < k
        /\ reqs[i].state = "returned" /\ reqs[i].received.status = 401
        /\ reqs[k].state = "inflight"
        /\ reqs[k].stored \in Tokens
        /\ reqs[i].stored \in Tokens
        /\ reqs[k].stored # reqs[i].stored
        /\ getToken = Absent
        /\ clearCalls = 1

\* C20: onSubmit stores a credential only from an ok response whose body
\* was parsed, and then asks for the navigation; every other step of
\* onSubmit leaves the store as it is and asks for no navigation.
C20_RegisterSetsOnSuccessOnly ==
    [][reg' # reg =>
          /\ SetsNow =>
               /\ reg.status >= 200 /\ reg.status <= 299
               /\ getToken' = reg'.data
               /\ reg'.replaced
          /\ ~SetsNow =>
               /\ getToken' = getToken
               /\ ~reg'.replaced]_vars

\* a registration failed while "abc123" was stored: error shown, no
\* navigation, credential kept
C20_Witness ==
    /\ reg.pc = "idle"
    /\ reg.error
    /\ ~reg.replaced
    /\ ~reg.busy
    /\ getToken = "abc123"
\* C14: a 401 answering a request that carried the stored credential leaves
\* the store empty, the uploads of the case page included.
C14_SingleChokePoint ==
    (/\ page.post.status = 401
     /\ page.post.stored # Absent
     /\ "authorization" \in DOMAIN page.post.headers)
        => getToken = Absent

\* C18: apiFetch returns every response with its body unused, and loadAll
\* reads the bodies it needs, as text or as JSON, without ever finding one
\* used.
C18_BodyPassThrough ==
    /\ \A i \in DOMAIN reqs :
         reqs[i].result.kind = "return" => ~reqs[i].result.value.bodyUsed
    /\ \A n \in DOMAIN loads : loads[n].err # "TypeError"
    /\ page.err # "TypeError"

\* one run of loadAll read its three bodies as JSON to the end; another
\* read the body of a 401 as text and showed it
C18_Witness ==
    \E m, n \in DOMAIN loads :
        /\ loads[m].pc = "done" /\ loads[m].err = "null"
        /\ loads[m].read = CallsOf(loads[m])
        /\ page.caseItem = m /\ page.evidence = m /\ page.events = m
        /\ loads[n].pc = "done" /\ loads[n].err = "body"
        /\ loads[n].read = {loads[n].at}
        /\ reqs[loads[n].at].received.status = 401
        /\ page.err = "body"
\* ---- the case page ----
\* nothing of the case page is pending
CaseSettled ==
    /\ page.mounted
    /\ page.post.pc = "idle"
    /\ \A n \in DOMAIN loads : loads[n].pc = "done"

\* C21: once a call of loadAll was answered 401 and the page has come to
\* rest, the page has asked for the redirect to /login.
C21_ExpiredSessionRedirect ==
    (/\ CaseSettled
     /\ \E i \in DOMAIN reqs :
          /\ reqs[i].by = "loadAll"
          /\ reqs[i].state = "returned"
          /\ reqs[i].received.status = 401)
        => page.replaced

\* C29: when every run of loadAll has ended and the one started last ended
\* well, the case, the evidence and the events shown are those of that run.
C29_LatestLoadDisplayed ==
    (/\ CaseSettled
     /\ loads[Len(loads)].err = "null")
        => /\ page.caseItem = Len(loads)
           /\ page.evidence = Len(loads)
           /\ page.events = Len(loads)

\* C30: a case page mounted with nothing stored asks for the redirect to
\* /login and issues no request.
C30_UnauthenticatedEntry ==
    page.replaced => (reqs = <<>> /\ outbox = <<>>)
\* the calls of run n that failed: in transport, or answered not ok
FailedCalls(n) ==
    {k \in CallsOf(loads[n]) :
        \/ reqs[k].state = "failed"
        \/ reqs[k].state = "returned" /\ ~reqs[k].received.ok}

\* run n of loadAll has set one of caseItem, evidence, events
Updated(n) == page.caseItem = n \/ page.evidence = n \/ page.events = n

\* C28: a run of loadAll with a call that failed in transport or was
\* answered not ok sets none of caseItem, evidence and events, and ends
\* with the error message set; a run sets them only when its three
\* responses are ok.
C28_LoadAllOrNothing ==
    \A n \in DOMAIN loads :
        /\ Updated(n) =>
             \A k \in CallsOf(loads[n]) :
                 reqs[k].state = "returned" /\ reqs[k].received.ok
        /\ FailedCalls(n) # {} =>
             /\ ~Updated(n)
             /\ loads[n].pc \in {"all", "text", "done"}
             /\ loads[n].pc = "done" =>
                  /\ loads[n].err \in {"transport", "body"}
                  /\ n = Len(loads) => page.err = loads[n].err

\* the case was answered 200, the evidence request failed in transport and
\* the events were answered 500: nothing is shown but the error
C28_Witness ==
    /\ Len(loads) = 1
    /\ reqs[1].state = "returned" /\ reqs[1].received.status = 200
    /\ reqs[2].state = "failed"
    /\ reqs[3].state = "returned" /\ reqs[3].received.status = 500
    /\ loads[1].pc = "done"
    /\ page.err = "transport"
    /\ page.caseItem = 0 /\ page.evidence = 0 /\ page.events = 0
\* ---- the quick-scan page ----
\* the request of run k failed in transport or was answered not 2xx
ScanFailed(k) ==
    \/ scan.runs[k].failed
    \/ scan.runs[k].status # 0 /\ ~Response(0, scan.runs[k].status).ok

\* C22: every request of a page that failed in transport or was answered
\* not 2xx has, once its handler has ended, set an error state of the page.
C22_UniformErrorSurfacing ==
    /\ \A k \in DOMAIN scan.runs :
         (scan.runs[k].pc = "done" /\ ScanFailed(k)) => scan.runs[k].surfaced
    /\ \A n \in DOMAIN loads :
         (loads[n].pc = "done" /\ FailedCalls(n) # {}) => loads[n].err # "null"

\* C23: every request of the client goes to the base address the
\* dispatcher uses, configured or default.
C23_SingleBaseAddress ==
    /\ \A k \in DOMAIN scan.runs : scan.runs[k].base = API
    /\ \A j \in DOMAIN outbox : outbox[j].url = API \o reqs[outbox[j].call].path
    /\ RegisterAPI = API

\* C24: every /report request carries an authorization header.
C24_ReportGated ==
    /\ \A k \in DOMAIN scan.runs :
         scan.runs[k].path = "/report" =>
             "authorization" \in DOMAIN scan.runs[k].headers
    /\ (page.post.pc # "idle" /\ page.post.endpoint = "/report") =>
             "authorization" \in DOMAIN page.post.headers
\* the uploads of the quick-scan page whose handler has not ended
ScanUploading == {k \in DOMAIN scan.runs :
                    scan.runs[k].by \in ScanUploads /\ scan.runs[k].pc # "done"}

\* C27: on each page at most one upload is in flight, and every upload was
\* sent with a file selected.
C27_OneUploadInFlight ==
    /\ Cardinality(ScanUploading) <= 1
    /\ \A k \in DOMAIN scan.runs :
         scan.runs[k].by \in ScanUploads => scan.runs[k].file
    /\ page.uploads <= 1
    /\ page.post.pc # "idle" => page.post.file

\* both pages have an upload in flight, the quick-scan page after an
\* earlier one that failed
C27_Witness ==
    /\ page.uploads = 1
    /\ page.post.pc = "fetch"
    /\ page.busy
    /\ \E j, k \in DOMAIN scan.runs :
         /\ j < k
         /\ scan.runs[j].by = "analyze" /\ scan.runs[j].pc = "done"
         /\ scan.runs[j].surfaced
         /\ scan.runs[k].by = "report" /\ scan.runs[k].pc = "fetch"
    /\ scan.busy
\* ---- the busy flags ----
\* onSubmit awaits its request or the body of the response
RegPending == reg.pc \in {"fetch", "text", "json"}

\* postMultipart awaits its request or the body of the response
PostPending == page.post.pc \in {"fetch", "text", "blob", "json"}

\* run n of loadAll awaits a response or a body
LoadPending(n) ==
    \/ /\ loads[n].pc = "all"
       /\ \E k \in CallsOf(loads[n]) : reqs[k].state = "inflight"
    \/ loads[n].pc \in {"text", "json1", "json2", "json3"}

\* postMultipart awaits the loadAll it has called
ReloadPending ==
    /\ page.post.pc = "load"
    /\ loads # <<>>
    /\ loads[Len(loads)].by = "post"
    /\ LoadPending(Len(loads))

\* C26 as stated: busy is true exactly while the request of the handler,
\* or the body of its response, is awaited.
C26_BusyReleased ==
    /\ reg.busy = RegPending
    /\ page.busy = PostPending
    /\ scan.busy = (ScanUploading # {})

\* C26 as amended: busy is true exactly while the handler awaits its
\* request, the body of the response or, in postMultipart, the loadAll it
\* calls after the upload.
C26_BusyReleasedAfterReload ==
    /\ reg.busy = RegPending
    /\ page.busy = (PostPending \/ ReloadPending)
    /\ scan.busy = (ScanUploading # {})

\* an upload of the case page was answered 200 and read; the reload has
\* its three responses and reads the second body; busy is still true
C26_Witness ==
    /\ page.busy
    /\ page.post.status = 200
    /\ ReloadPending
    /\ loads[Len(loads)].pc = "json2"
    /\ \A k \in CallsOf(loads[Len(loads)]) : reqs[k].state = "returned"
\* ---- the storage medium is unavailable ----
\* C25: while the storage medium is unavailable, get() returns absent and
\* set() and clear() change nothing, and their callers go on: apiFetch
\* sends its request with no authorization header but the caller's own,
\* a 401 still calls clear() and is still returned to the caller, and a
\* successful registration still calls set() and navigates.
C25_StorageUnavailable ==
    [][~env.storage =>
         /\ token' = token
         /\ getToken' = Absent
         /\ \A j \in DOMAIN outbox' :
               "authorization" \in DOMAIN outbox'[j].headers =>
                   CallerSuppliesAuth(reqs'[outbox'[j].call].init)
         /\ \A i \in DOMAIN reqs :
               ReturnsNow(i, 401) =>
                   /\ ClearsNow
                   /\ reqs'[i].result.kind = "return"
                   /\ reqs'[i].result.value.status = 401
         /\ SetsNow => reg'.replaced /\ reg'.data \in Tokens]_vars

\* the medium still holds a credential; a request went out without an
\* authorization header and its 401 was returned after clear() was called;
\* a registration has called set() and navigated
C25_Witness ==
    /\ ~env.storage
    /\ token = "abc123"
    /\ reg.replaced
    /\ reg.data = "tok2"
    /\ clearCalls >= 1
    /\ \E i \in DOMAIN reqs :
          /\ reqs[i].init = InitDefault
          /\ reqs[i].state = "returned"
          /\ reqs[i].received.status = 401
          /\ \A j \in OutboundOf(i) : "authorization" \notin DOMAIN outbox[j].headers
====
